---- MODULE Spec2Model ----
(***************************************************************************)
(* A model of the summary core of cubedash:                                *)
(*   - TimePeriodOverview.add_periods (the hierarchical merge of period    *)
(*     overviews) and _group_counter_if_needed, from summary/_model.py;    *)
(*   - TimePeriodOverview.footprint_wrs84 with its antimeridian test and   *)
(*     unwrap, from summary/_model.py;                                     *)
(*   - refresh_product / _populate_missing_dataset_extents and the SRID    *)
(*     expression, from summary/_extents.py, over the dataset_spatial      *)
(*     table of summary/_schema.py.                                        *)
(*                                                                         *)
(* A Python Optional value is modelled as a sequence: None is <<>> and a   *)
(* present scalar v is <<v>>.  Objects (overviews, geometries) are records *)
(* and are compared with None directly.                                    *)
(***************************************************************************)
EXTENDS Integers, Sequences, FiniteSets, Bags, TLC

VARIABLES
    \* ---- add_periods -------------------------------------------------
    periods,              \* the list handed to add_periods
    footprint_tolerance,  \* the footprint_tolerance argument of the call
    pc,                   \* position of the call inside add_periods
    unionCalls,           \* argument lists given to shapely.ops.unary_union
    result,               \* the TimePeriodOverview returned, or None
    error,                \* the exception that left add_periods, or None
    depth,                \* how many merges deep the overviews of the list are
    \* ---- refresh_product ---------------------------------------------
    catalog,              \* agdc.dataset: dataset id -> row, None when not indexed
    dataset_spatial,      \* cubedash.dataset_spatial: the bag of its rows
    calls,                \* the refresh_product calls: their INSERT statements
    \* ---- get_dataset_srid_alchemy_expression -------------------------
    grid_spatial,         \* the projection section of a dataset document, or None
    srid,                 \* the value of the SRID expression, once evaluated
    \* ---- footprint_wrs84 ---------------------------------------------
    self,                 \* the overview: its footprint_geometry and footprint_crs
    new_geometry,         \* the local new_geometry before the final buffer(0)
    wrs84                 \* the value of the property, once evaluated

mergeVars == <<periods, footprint_tolerance, pc, unionCalls, result, error, depth>>
storeVars == <<catalog, dataset_spatial, calls>>
sridVars == <<grid_spatial, srid>>
wrapVars == <<self, new_geometry, wrs84>>
vars == <<mergeVars, storeVars, sridVars, wrapVars>>
notMerge == <<storeVars, sridVars, wrapVars>>
notStore == <<mergeVars, sridVars, wrapVars>>
notSrid == <<mergeVars, storeVars, wrapVars>>
notWrap == <<mergeVars, storeVars, sridVars>>

-----------------------------------------------------------------------------
(* Bounds of the model *)

\* Longest list handed to add_periods.
MaxPeriods == 2
\* Dataset ids of the catalog, 1..MaxDatasets.
MaxDatasets == 2
\* Vertices of a polygon ring, the closing one not counted.
MaxRing == 3
\* Merges on top of one another: results of add_periods merged again.
MaxDepth == 2

-----------------------------------------------------------------------------
(* Python values *)

None == <<>>
Some(v) == <<v>>

RECURSIVE SumSeq(_)
SumSeq(s) == IF s = <<>> THEN 0 ELSE Head(s) + SumSeq(Tail(s))

SetMax(S) == CHOOSE x \in S : \A y \in S : y <= x
SetMin(S) == CHOOSE x \in S : \A y \in S : x <= y

\* the values of a generator "x for x in s if x is not None"
Present(s) == {s[i][1] : i \in {j \in DOMAIN s : s[j] # None}}

-----------------------------------------------------------------------------
(* collections.Counter, keyed by dates <<year, month, day>> or grid cells *)

EmptyCounter == <<>>

\* a variant with dict.update(other): the count of other replaces the one
\* that is there
CounterUpdateOverwriting(c, other) ==
    [k \in (DOMAIN c) \cup (DOMAIN other) |->
        IF k \in DOMAIN other THEN other[k] ELSE c[k]]

\* Counter.update(other): per-key addition, keys of either side kept
CounterUpdate(c, other) ==
    [k \in (DOMAIN c) \cup (DOMAIN other) |->
        (IF k \in DOMAIN c THEN c[k] ELSE 0)
      + (IF k \in DOMAIN other THEN other[k] ELSE 0)]

\* Counter.elements() restricted to the keys in S: each key repeated count
\* times (<<key, j>> is its j-th repetition); a key whose count is below one
\* has no element
Elements(c, S) == UNION {{<<k, j>> : j \in 1..c[k]} : k \in S}

\* sum(counter.values()), the counts being non-negative
CounterTotal(c) == Cardinality(Elements(c, DOMAIN c))

\* datetime(date.year, date.month, 1).date()
FirstOfMonth(date) == <<date[1], date[2], 1>>
\* datetime(date.year, 1, 1).date()
FirstOfYear(date) == <<date[1], 1, 1>>

\* the dates that FirstOfMonth, FirstOfYear take to the date n
DatesOfMonth(n) == {<<n[1], n[2], d>> : d \in 1..31}
DatesOfYear(n) == {<<n[1], m, d>> : m \in 1..12, d \in 1..31}

\* Counter(datetime(date.year, date.month, 1).date()
\*         for date in counter.elements())
RegroupByMonth(c) ==
    LET live == {k \in DOMAIN c : c[k] >= 1}
    IN  [n \in {FirstOfMonth(k) : k \in live} |->
            Cardinality(Elements(c, DatesOfMonth(n) \cap DOMAIN c))]

\* Counter(datetime(date.year, 1, 1).date() for date in counter.elements())
RegroupByYear(c) ==
    LET live == {k \in DOMAIN c : c[k] >= 1}
    IN  [n \in {FirstOfYear(k) : k \in live} |->
            Cardinality(Elements(c, DatesOfYear(n) \cap DOMAIN c))]

\* The threshold of _group_counter_if_needed
MaxTimelineKeys == 366

\* a variant that coarsens a second time while the keys stay above the threshold
GroupCounterMonthToYearAsWell(counter, period) ==
    IF Cardinality(DOMAIN counter) > MaxTimelineKeys
    THEN IF period = "day"
         THEN LET m == RegroupByMonth(counter)
              IN  IF Cardinality(DOMAIN m) > MaxTimelineKeys
                  THEN <<RegroupByYear(m), "year">>
                  ELSE <<m, "month">>
         ELSE IF period = "month"
         THEN <<RegroupByYear(counter), "year">>
         ELSE <<counter, period>>
    ELSE <<counter, period>>

\* TimePeriodOverview._group_counter_if_needed: <<counter, period>>
GroupCounterIfNeeded(counter, period) ==
    IF Cardinality(DOMAIN counter) > MaxTimelineKeys
    THEN IF period = "day"
         THEN <<RegroupByMonth(counter), "month">>
         ELSE IF period = "month"
         THEN <<RegroupByYear(counter), "year">>
         ELSE <<counter, period>>
    ELSE <<counter, period>>

-----------------------------------------------------------------------------
(* shapely geometries: the set of grid points covered, one grid step being *)
(* the 0.001 CRS units of the retry buffer, with the is_valid flag and the *)
(* tolerance of the last simplify (None when never simplified)             *)

Geometry(pts, valid) == [pts |-> pts, is_valid |-> valid, simplified |-> None]

IsEmpty(g) == g.pts = {}
\* bool(geometry): BaseGeometry is falsy when empty, None is falsy
Truthy(g) == g # None /\ ~IsEmpty(g)

\* shapely.ops.unary_union of a non-empty list, when it returns
UnaryUnion(gs) == Geometry(UNION {gs[i].pts : i \in DOMAIN gs}, TRUE)

\* geometry.buffer(0.001): one grid step around every covered point
BufferDistance == 1
Buffer(g) ==
    Geometry(UNION {{p - BufferDistance, p, p + BufferDistance} : p \in g.pts}, TRUE)

\* geometry.simplify(tolerance)
Simplify(g, tolerance) == [g EXCEPT !.simplified = Some(tolerance)]

\* default of the footprint_tolerance parameter
DefaultFootprintTolerance == 1000

-----------------------------------------------------------------------------
(* TimePeriodOverview *)

Range(begin, end) == [begin |-> begin, end |-> end]

Overview(dc, tl, regions, period, range, geom, crs, fc, newest, crses, size, gen) ==
    [dataset_count |-> dc,
     timeline_dataset_counts |-> tl,
     region_dataset_counts |-> regions,
     timeline_period |-> period,
     time_range |-> range,
     footprint_geometry |-> geom,
     footprint_crs |-> crs,
     footprint_count |-> fc,
     newest_dataset_creation_time |-> newest,
     crses |-> crses,
     size_bytes |-> size,
     summary_gen_time |-> gen]

-----------------------------------------------------------------------------
(* TimePeriodOverview.add_periods, statement by statement *)

\* periods = [p for p in periods if p is not None and p.dataset_count > 0]
Filtered(ps) == SelectSeq(ps, LAMBDA p : p # None /\ p.dataset_count > 0)

\* crses = set(p.footprint_crs for p in periods)
CrsSet(ps) == {ps[i].footprint_crs : i \in DOMAIN ps}

\* the if / elif / else on crses; FALSE stands for the raise
CrsConsistent(ps) == Cardinality(CrsSet(ps)) <= 1

FootprintCrs(ps) ==
    IF CrsSet(ps) = {} THEN None ELSE CHOOSE c \in CrsSet(ps) : TRUE

\* timeline_counter = Counter(); for p in periods: timeline_counter.update(...)
RECURSIVE TimelineCounter(_)
TimelineCounter(ps) ==
    IF ps = <<>> THEN EmptyCounter
    ELSE CounterUpdate(TimelineCounter(SubSeq(ps, 1, Len(ps) - 1)),
                       ps[Len(ps)].timeline_dataset_counts)

\* a variant that leaves out the assignment in the loop
LastPeriodAlwaysDay(ps) == "day"

\* period = "day"; for p in periods: period = p.timeline_period
LastPeriod(ps) == IF ps = <<>> THEN "day" ELSE ps[Len(ps)].timeline_period

\* region_counter = Counter(); for p in periods: region_counter.update(...)
RECURSIVE RegionCounter(_)
RegionCounter(ps) ==
    IF ps = <<>> THEN EmptyCounter
    ELSE CounterUpdate(RegionCounter(SubSeq(ps, 1, Len(ps) - 1)),
                       ps[Len(ps)].region_dataset_counts)

\* a variant that leaves out the footprint_count test
WithValidGeometriesIgnoringCount(ps) ==
    SelectSeq(ps, LAMBDA p :
        /\ Truthy(p.footprint_geometry)
        /\ p.footprint_geometry.is_valid
        /\ ~IsEmpty(p.footprint_geometry))

\* a variant that leaves out the is_valid and is_empty tests
WithValidGeometriesIgnoringValidity(ps) ==
    SelectSeq(ps, LAMBDA p : p.footprint_count # 0 /\ p.footprint_geometry # None)

\* with_valid_geometries = [p for p in periods if p.footprint_count
\*     and p.footprint_geometry and p.footprint_geometry.is_valid
\*     and not p.footprint_geometry.is_empty]
WithValidGeometries(ps) ==
    SelectSeq(ps, LAMBDA p :
        /\ p.footprint_count # 0
        /\ Truthy(p.footprint_geometry)
        /\ p.footprint_geometry.is_valid
        /\ ~IsEmpty(p.footprint_geometry))

\* [p.footprint_geometry for p in with_valid_geometries]
FootprintsOf(valid) == [i \in DOMAIN valid |-> valid[i].footprint_geometry]
\* a variant that retries on the same geometries
BufferedFootprintsOfUnbuffered(valid) == FootprintsOf(valid)

\* [p.footprint_geometry.buffer(0.001) for p in with_valid_geometries]
BufferedFootprintsOf(valid) == [i \in DOMAIN valid |-> Buffer(valid[i].footprint_geometry)]

\* if footprint_tolerance is not None and geometry_union is not None: simplify
Simplified(geometry_union, tolerance) ==
    IF tolerance # None /\ geometry_union # None
    THEN Simplify(geometry_union, tolerance[1])
    ELSE geometry_union

\* a variant that sums over with_valid_geometries
TotalDatasetsOfValidOnly(ps) ==
    SumSeq([i \in DOMAIN WithValidGeometries(ps) |-> WithValidGeometries(ps)[i].dataset_count])

\* total_datasets = sum(p.dataset_count for p in periods)
TotalDatasets(ps) == SumSeq([i \in DOMAIN ps |-> ps[i].dataset_count])

\* footprint_count = sum(p.footprint_count for p in with_valid_geometries)
FootprintCount(valid) == SumSeq([i \in DOMAIN valid |-> valid[i].footprint_count])

\* time_range = Range(min(begin ...) if periods else None, max(end ...) ...)
TimeRange(ps) ==
    IF ps = <<>> THEN Range(None, None)
    ELSE Range(Some(SetMin({ps[i].time_range.begin[1] : i \in DOMAIN ps})),
               Some(SetMax({ps[i].time_range.end[1] : i \in DOMAIN ps})))

\* max((... for p in periods if ... is not None), default=None)
NewestCreation(ps) ==
    LET times == Present([i \in DOMAIN ps |-> ps[i].newest_dataset_creation_time])
    IN  IF times = {} THEN None ELSE Some(SetMax(times))

\* min((p.summary_gen_time for p in periods if ... is not None), default=None)
SummaryGenTime(ps) ==
    LET times == Present([i \in DOMAIN ps |-> ps[i].summary_gen_time])
    IN  IF times = {} THEN None ELSE Some(SetMin(times))

\* set.union(*(o.crses for o in periods)) if periods else set()
CrsesUnion(ps) == UNION {ps[i].crses : i \in DOMAIN ps}

\* sum(p.size_bytes for p in periods if p.size_bytes is not None)
SizeBytes(ps) ==
    LET sized == SelectSeq(ps, LAMBDA p : p.size_bytes # None)
    IN  SumSeq([i \in DOMAIN sized |-> sized[i].size_bytes[1]])

\* return TimePeriodOverview(...), ps being the filtered periods
BuildOverview(ps, geometry_union, tolerance) ==
    LET grouped == GroupCounterIfNeeded(TimelineCounter(ps), LastPeriod(ps))
    IN  Overview(TotalDatasets(ps),
                 grouped[1],
                 RegionCounter(ps),
                 grouped[2],
                 TimeRange(ps),
                 Simplified(geometry_union, tolerance),
                 FootprintCrs(ps),
                 FootprintCount(WithValidGeometries(ps)),
                 NewestCreation(ps),
                 CrsesUnion(ps),
                 Some(SizeBytes(ps)),
                 SummaryGenTime(ps))

-----------------------------------------------------------------------------
(* The overviews handed to add_periods.  They are built outside this code  *)
(* (one per finest period); the families below vary one group of fields   *)
(* at a time around a plain overview.  dataset_count is the total of the   *)
(* timeline, footprint_count never exceeds it.                             *)

\* the day d of the i-th month counted from January 1986
Day(i, d) == <<1986 + (i \div 12), (i % 12) + 1, d>>

\* a timeline with count 1 on the first nd days of nm months from month m0
DayCounts(m0, nm, nd) ==
    [k \in {Day(m0 + i, d) : i \in 0..(nm - 1), d \in 1..nd} |-> 1]

TimelineKinds ==
    {"empty", "d1", "d2", "denseA", "denseB", "sparseA", "sparseB", "sparse400",
     "months", "years", "months400", "years400"}

TimelineOf(kind) ==
    CASE kind = "empty"     -> <<"day", EmptyCounter>>
      [] kind = "d1"        -> <<"day", DayCounts(0, 1, 1)>>
      [] kind = "d2"        -> <<"day", DayCounts(0, 1, 2)>>
      [] kind = "denseA"    -> <<"day", DayCounts(0, 7, 28)>>
      [] kind = "denseB"    -> <<"day", DayCounts(7, 7, 28)>>
      [] kind = "sparseA"   -> <<"day", DayCounts(0, 200, 1)>>
      [] kind = "sparseB"   -> <<"day", DayCounts(200, 200, 1)>>
      [] kind = "sparse400" -> <<"day", DayCounts(0, 400, 1)>>
      [] kind = "months"    -> <<"month", DayCounts(1, 3, 1)>>
      [] kind = "years"     -> <<"year", [k \in {Day(0, 1), Day(12, 1)} |-> 2]>>
      [] kind = "months400" -> <<"month", DayCounts(0, 400, 1)>>
      [] kind = "years400"  -> <<"year", [k \in {Day(12 * y, 1) : y \in 0..399} |-> 1]>>

Square1 == Geometry(0..2, TRUE)
Square2 == Geometry(2..4, TRUE)
Bowtie == Geometry(0..2, FALSE)
EmptyGeometry == Geometry({}, TRUE)

FootprintKinds ==
    {"none", "valid1", "valid2", "invalid", "empty", "count_only", "geometry_only"}

\* <<footprint_count, footprint_geometry>> of an overview of dc datasets
FootprintOf(kind, dc) ==
    LET one == IF dc = 0 THEN 0 ELSE 1
    IN  CASE kind = "none"          -> <<0, None>>
          [] kind = "valid1"        -> <<dc, Square1>>
          [] kind = "valid2"        -> <<one, Square2>>
          [] kind = "invalid"       -> <<dc, Bowtie>>
          [] kind = "empty"         -> <<dc, EmptyGeometry>>
          [] kind = "count_only"    -> <<dc, None>>
          [] kind = "geometry_only" -> <<0, Square1>>

CrsKinds == {None, Some("EPSG:3577"), Some("EPSG:4326")}

OtherKinds == {"plain", "unsized", "other"}

MakeOverview(timeline, footprint, crs, other) ==
    LET tl == TimelineOf(timeline)
        dc == CounterTotal(tl[2])
        fp == FootprintOf(footprint, dc)
        regions == IF dc = 0 THEN EmptyCounter
                   ELSE IF other = "other" THEN [k \in {<<9, 9>>} |-> dc]
                   ELSE IF dc = 1 THEN [k \in {<<1, 2>>} |-> 1]
                   ELSE [k \in {<<1, 2>>, <<1, 3>>} |-> IF k = <<1, 2>> THEN 1 ELSE dc - 1]
    IN  CASE other = "plain" ->
               Overview(dc, tl[2], regions, tl[1], Range(Some(1), Some(4)), fp[2], crs,
                        fp[1], Some(3), {"EPSG:28355"}, Some(5), Some(7))
          [] other = "unsized" ->
               Overview(dc, tl[2], regions, tl[1], Range(Some(2), Some(3)), fp[2], crs,
                        fp[1], None, {}, None, None)
          [] other = "other" ->
               Overview(dc, tl[2], regions, tl[1], Range(Some(0), Some(8)), fp[2], crs,
                        fp[1], Some(9), {"EPSG:28356"}, Some(11), Some(6))

\* the overviews of the single merges: every footprint, CRS and scalar case
Leaves ==
       {MakeOverview("d1", f, Some("EPSG:3577"), "plain") : f \in FootprintKinds}
  \cup {MakeOverview("d2", f, Some("EPSG:3577"), "plain") : f \in {"none", "valid1", "valid2"}}
  \cup {MakeOverview("d1", "valid1", c, "plain") : c \in CrsKinds}
  \cup {MakeOverview("d1", "valid1", Some("EPSG:3577"), o) : o \in OtherKinds}
  \cup {MakeOverview(t, "valid1", Some("EPSG:3577"), "plain") : t \in {"months", "sparse400"}}
  \cup {MakeOverview("empty", "none", Some("EPSG:3577"), "plain"),
        MakeOverview("empty", "geometry_only", Some("EPSG:4326"), "other")}

\* the overviews of the timeline merges: every timeline case, no footprint
TimelineLeaves ==
    {MakeOverview(t, "none", Some("EPSG:3577"), "plain") : t \in TimelineKinds}

-----------------------------------------------------------------------------
(* One call of add_periods.  The two calls of shapely.ops.unary_union are  *)
(* calls into the geometry library, which returns or raises ValueError.    *)

\* the caller puts one more overview, or None, in the list
Supply(p) ==
    /\ pc = "args"
    /\ Len(periods) < MaxPeriods
    /\ periods' = Append(periods, p)
    /\ UNCHANGED <<footprint_tolerance, pc, unionCalls, result, error, depth>>
    /\ UNCHANGED notMerge

SupplyTimeline(p) == Supply(p)

\* add_periods(periods, tolerance) up to the first unary_union (lines 77-118)
Call(tolerance) ==
    /\ pc = "args"
    /\ footprint_tolerance' = tolerance
    /\ LET ps == Filtered(periods)
       IN  IF ~CrsConsistent(ps)
           THEN /\ pc' = "raised"
                /\ error' = Some("NotImplementedError")
                /\ result' = None
           ELSE IF WithValidGeometries(ps) = <<>>
           THEN /\ pc' = "returned"
                /\ result' = BuildOverview(ps, None, tolerance)
                /\ error' = None
           ELSE /\ pc' = "union"
                /\ UNCHANGED <<result, error>>
    /\ UNCHANGED <<periods, unionCalls, depth>>
    /\ UNCHANGED notMerge

\* the first unary_union returns (lines 112-118), then lines 132-163
UnionReturns ==
    /\ pc = "union"
    /\ LET ps == Filtered(periods)
           geoms == FootprintsOf(WithValidGeometries(ps))
       IN  /\ unionCalls' = Append(unionCalls, geoms)
           /\ result' = BuildOverview(ps, UnaryUnion(geoms), footprint_tolerance)
    /\ pc' = "returned"
    /\ UNCHANGED <<periods, footprint_tolerance, error, depth>>
    /\ UNCHANGED notMerge

\* the first unary_union raises ValueError, caught at line 119
UnionRaises ==
    /\ pc = "union"
    /\ unionCalls' = Append(unionCalls, FootprintsOf(WithValidGeometries(Filtered(periods))))
    /\ pc' = "retry"
    /\ UNCHANGED <<periods, footprint_tolerance, result, error, depth>>
    /\ UNCHANGED notMerge

\* the second unary_union, on the buffered footprints, returns (lines 124-130)
RetryReturns ==
    /\ pc = "retry"
    /\ LET ps == Filtered(periods)
           geoms == BufferedFootprintsOf(WithValidGeometries(ps))
       IN  /\ unionCalls' = Append(unionCalls, geoms)
           /\ result' = BuildOverview(ps, UnaryUnion(geoms), footprint_tolerance)
    /\ pc' = "returned"
    /\ UNCHANGED <<periods, footprint_tolerance, error, depth>>
    /\ UNCHANGED notMerge

\* the second unary_union raises too: nothing catches it
RetryRaises ==
    /\ pc = "retry"
    /\ unionCalls' =
           Append(unionCalls, BufferedFootprintsOf(WithValidGeometries(Filtered(periods))))
    /\ pc' = "raised"
    /\ error' = Some("ValueError")
    /\ UNCHANGED <<periods, footprint_tolerance, result, depth>>
    /\ UNCHANGED notMerge

Tolerances == {None, Some(DefaultFootprintTolerance)}

MergeNext ==
    \/ \E p \in Leaves \cup {None} : Supply(p)
    \/ \E t \in Tolerances : Call(t)
    \/ UnionReturns
    \/ UnionRaises
    \/ RetryReturns
    \/ RetryRaises

TimelineNext ==
    \/ \E p \in TimelineLeaves \cup {None} : SupplyTimeline(p)
    \/ \E t \in Tolerances : Call(t)

-----------------------------------------------------------------------------
(* Merges bottom-up: the overview that one call of add_periods returned is *)
(* handed to the next call, with day-period leaf overviews before or after *)
(* it in the list.                                                         *)

\* the day-period leaves: two days of one month, 196 days of 7 months,
\* 196 days of the next 7 months, 400 days of 400 months
DayLeaves ==
    {MakeOverview(t, "none", Some("EPSG:3577"), "plain") :
        t \in {"d2", "denseA", "denseB", "sparse400"}}

Insert(s, i, p) == SubSeq(s, 1, i - 1) \o <<p>> \o SubSeq(s, i, Len(s))

\* the caller puts one more leaf in the list, at any place
SupplyLeaf(p, i) ==
    /\ pc = "args"
    /\ Len(periods) < MaxPeriods
    /\ periods' = Insert(periods, i, p)
    /\ UNCHANGED <<footprint_tolerance, pc, unionCalls, result, error, depth>>
    /\ UNCHANGED notMerge

\* the caller starts the list of its next call with the overview returned
MergeAgain ==
    /\ pc = "returned"
    /\ depth < MaxDepth
    /\ periods' = <<result>>
    /\ pc' = "args"
    /\ result' = None
    /\ unionCalls' = <<>>
    /\ footprint_tolerance' = None
    /\ depth' = depth + 1
    /\ UNCHANGED error
    /\ UNCHANGED notMerge

BottomUpNext ==
    \/ \E p \in DayLeaves, i \in 1..(Len(periods) + 1) : SupplyLeaf(p, i)
    \/ \E t \in Tolerances : Call(t)
    \/ MergeAgain


-----------------------------------------------------------------------------
(* refresh_product: INSERT INTO dataset_spatial ... SELECT ... FROM dataset *)
(* ... ON CONFLICT (id) DO NOTHING, one statement per call, autocommitted. *)
(* Overlapping statements interleave row by row; the primary key on id is  *)
(* checked as each row goes in.                                            *)

\* the datasets of product 1 that come and go; dataset 0 is of product 2 and
\* stays as indexed
DatasetIds == 0..MaxDatasets
\* two callers, whose statements may overlap
CallIds == {"first", "second"}
Products == {1, 2}

Dataset(product, doc) == [dataset_type_ref |-> product, archived |-> None, doc |-> doc]

\* the columns computed from the metadata document: center_time, footprint,
\* grid_point, creation_time
ExtentOf(doc) == [of_doc |-> doc]

\* one row of _select_dataset_extent_query
SpatialRow(id, dataset) ==
    [id |-> id, dataset_type_ref |-> dataset.dataset_type_ref, extent |-> ExtentOf(dataset.doc)]

\* _select_dataset_extent_query(product): ... where dataset_type_ref ==
\* product_ref and archived == None
SelectDatasetExtentQuery(cat, product_ref) ==
    {SpatialRow(id, cat[id]) :
        id \in {i \in DatasetIds :
                  /\ cat[i] # None
                  /\ cat[i].dataset_type_ref = product_ref
                  /\ cat[i].archived = None}}

IdsOf(table) == {r.id : r \in BagToSet(table)}
RowsOf(table, id) == {r \in BagToSet(table) : r.id = id}

\* INSERT of one row, the primary key on id checked: <<table, outcome>>.
\* A variant without a conflict clause: a taken id raises IntegrityError
InsertPlain(table, row) ==
    IF row.id \in IdsOf(table) THEN <<table, "IntegrityError">>
    ELSE <<table (+) SetToBag({row}), "inserted">>

\* a variant with ON CONFLICT DO UPDATE: a taken id has its row overwritten
InsertOrUpdate(table, row) ==
    IF row.id \in IdsOf(table)
    THEN <<SetToBag({r \in BagToSet(table) : r.id # row.id} \cup {row}), "skipped">>
    ELSE <<table (+) SetToBag({row}), "inserted">>

\* .on_conflict_do_nothing(index_elements=['id'])
InsertOnConflictDoNothing(table, row) ==
    IF row.id \in IdsOf(table) THEN <<table, "skipped">>
    ELSE <<table (+) SetToBag({row}), "inserted">>

IdleCall == [pc |-> "idle", product_ref |-> None, selected |-> {}, pending |-> {},
             all_stored |-> FALSE, inserted |-> {}, rowcount |-> None]

\* the catalog (outside this code): a dataset is indexed, updated, archived
IndexDataset(id) ==
    /\ catalog[id] = None
    /\ catalog' = [catalog EXCEPT ![id] = Dataset(1, "v1")]
    /\ UNCHANGED <<dataset_spatial, calls>>
    /\ UNCHANGED notStore

UpdateDataset(id) ==
    /\ id # 0
    /\ catalog[id] # None
    /\ catalog[id].archived = None
    /\ catalog[id].doc = "v1"
    /\ catalog' = [catalog EXCEPT ![id].doc = "v2"]
    /\ UNCHANGED <<dataset_spatial, calls>>
    /\ UNCHANGED notStore

ArchiveDataset(id) ==
    /\ id # 0
    /\ catalog[id] # None
    /\ catalog[id].archived = None
    /\ catalog' = [catalog EXCEPT ![id].archived = Some("archived")]
    /\ UNCHANGED <<dataset_spatial, calls>>
    /\ UNCHANGED notStore

\* engine.execute(query) starts: the SELECT is evaluated; all_stored says
\* whether every selected id has its row in dataset_spatial already
BeginRefresh(c, product) ==
    /\ calls[c].pc = "idle"
    /\ LET rows == SelectDatasetExtentQuery(catalog, product)
       IN  calls' = [calls EXCEPT ![c] =
                [pc |-> "inserting", product_ref |-> Some(product), selected |-> rows,
                 pending |-> rows,
                 all_stored |-> {r.id : r \in rows} \subseteq IdsOf(dataset_spatial),
                 inserted |-> {}, rowcount |-> None]]
    /\ UNCHANGED <<catalog, dataset_spatial>>
    /\ UNCHANGED notStore

\* the statement puts one selected row in the table; an error aborts the
\* statement and takes its own rows out again
InsertRow(c, row) ==
    /\ calls[c].pc = "inserting"
    /\ row \in calls[c].pending
    /\ LET out == InsertOnConflictDoNothing(dataset_spatial, row)
       IN  IF out[2] = "IntegrityError"
           THEN /\ dataset_spatial' =
                       SetToBag({r \in BagToSet(dataset_spatial) :
                                    r.id \notin calls[c].inserted})
                /\ calls' = [calls EXCEPT ![c].pc = "raised", ![c].pending = {},
                                          ![c].inserted = {}]
           ELSE /\ dataset_spatial' = out[1]
                /\ calls' = [calls EXCEPT
                       ![c].pending = @ \ {row},
                       ![c].inserted = IF out[2] = "inserted" THEN @ \cup {row.id} ELSE @]
    /\ UNCHANGED catalog
    /\ UNCHANGED notStore

\* inserted = engine.execute(query).rowcount; return inserted
EndRefresh(c) ==
    /\ calls[c].pc = "inserting"
    /\ calls[c].pending = {}
    /\ calls' = [calls EXCEPT ![c].pc = "returned",
                              ![c].rowcount = Some(Cardinality(calls[c].inserted))]
    /\ UNCHANGED <<catalog, dataset_spatial>>
    /\ UNCHANGED notStore

StoreNext ==
    \/ \E id \in DatasetIds : IndexDataset(id)
    \/ \E id \in DatasetIds : UpdateDataset(id)
    \/ \E id \in DatasetIds : ArchiveDataset(id)
    \/ \E c \in CallIds, product \in Products : BeginRefresh(c, product)
    \/ \E c \in CallIds : \E row \in calls[c].pending : InsertRow(c, row)
    \/ \E c \in CallIds : EndRefresh(c)

-----------------------------------------------------------------------------
(* get_dataset_srid_alchemy_expression: the SQL expression, evaluated on one *)
(* dataset document.  Text is a sequence of characters; SQL NULL is None.   *)

UpperChars == <<"A", "B", "C", "D", "E", "F", "G", "H", "I", "J", "K", "L", "M",
                "N", "O", "P", "Q", "R", "S", "T", "U", "V", "W", "X", "Y", "Z">>
LowerChars == <<"a", "b", "c", "d", "e", "f", "g", "h", "i", "j", "k", "l", "m",
                "n", "o", "p", "q", "r", "s", "t", "u", "v", "w", "x", "y", "z">>
DigitChars == <<"0", "1", "2", "3", "4", "5", "6", "7", "8", "9">>

Range1(t) == {t[i] : i \in DOMAIN t}
IsDigit(ch) == ch \in Range1(DigitChars)
IsAlnum(ch) == ch \in Range1(UpperChars) \cup Range1(LowerChars) \cup Range1(DigitChars)

\* func.lower(text)
LowerChar(ch) ==
    IF ch \in Range1(UpperChars)
    THEN LowerChars[CHOOSE i \in DOMAIN UpperChars : UpperChars[i] = ch]
    ELSE ch
Lower(text) == [i \in DOMAIN text |-> LowerChar(text[i])]

\* text ~ '^[A-Za-z0-9]+:[0-9]+$'
MatchesShorthand(text) ==
    \E i \in DOMAIN text :
        /\ text[i] = ":"
        /\ 1 < i /\ i < Len(text)
        /\ \A j \in 1..(i - 1) : IsAlnum(text[j])
        /\ \A j \in (i + 1)..Len(text) : IsDigit(text[j])

\* func.split_part(text, ':', n) for n = 1, 2
Colons(text) == {i \in DOMAIN text : text[i] = ":"}
SplitPart(text, n) ==
    LET cut == Colons(text) \cup {Len(text) + 1}
        first == SetMin(cut)
        rest == {i \in cut : i > first}
    IN  IF n = 1 THEN SubSeq(text, 1, first - 1)
        ELSE IF rest = {} THEN <<>>
        ELSE SubSeq(text, first + 1, SetMin(rest) - 1)

\* text.cast(Integer), the text being digits
RECURSIVE CastInteger(_)
CastInteger(text) ==
    IF text = <<>> THEN 0
    ELSE 10 * CastInteger(SubSeq(text, 1, Len(text) - 1))
         + (CHOOSE d \in 0..9 : DigitChars[d + 1] = text[Len(text)])

\* func.abs(n)
Abs(n) == IF n < 0 THEN 0 - n ELSE n

\* '283' + abs(zone), rendered as the text concatenation '283' || abs(zone):
\* the digits of abs(zone) written after 283
RECURSIVE Shift(_, _)
Shift(prefix, n) == IF n < 10 THEN 10 * prefix ELSE Shift(10 * prefix, n \div 10)
Concat283(n) == Shift(283, n) + n

EPSG == <<"E", "P", "S", "G">>

\* public.spatial_ref_sys: srid, auth_name, auth_srid
SPATIAL_REF_SYS ==
    {[srid |-> 4326, auth_name |-> EPSG, auth_srid |-> 4326],
     [srid |-> 3577, auth_name |-> EPSG, auth_srid |-> 3577],
     [srid |-> 2835, auth_name |-> EPSG, auth_srid |-> 2835],
     [srid |-> 28355, auth_name |-> EPSG, auth_srid |-> 28355],
     [srid |-> 28356, auth_name |-> EPSG, auth_srid |-> 28356],
     [srid |-> 900007, auth_name |-> <<"C", "U", "S", "T", "O", "M">>, auth_srid |-> 7]}

\* select([SPATIAL_REF_SYS.c.srid]).where(...).as_scalar(): NULL for no row
Scalar(rows) == IF rows = {} THEN None ELSE Some((CHOOSE r \in rows : TRUE).srid)

\* where lower(auth_name) == lower(split_part(ref, ':', 1))
\*   and auth_srid == split_part(ref, ':', 2).cast(Integer)
ShorthandLookup(spatial_ref) ==
    Scalar({r \in SPATIAL_REF_SYS :
              /\ Lower(r.auth_name) = Lower(SplitPart(spatial_ref, 1))
              /\ r.auth_srid = CastInteger(SplitPart(spatial_ref, 2))})

\* where auth_name == 'EPSG' and auth_srid == ('283' + abs(zone)).cast(Integer);
\* a NULL zone compares to nothing
LegacyLookup(zone) ==
    IF zone = None THEN None
    ELSE Scalar({r \in SPATIAL_REF_SYS :
                   r.auth_name = EPSG /\ r.auth_srid = Concat283(Abs(zone[1]))})

\* func.coalesce(a, b)
Coalesce(a, b) == IF a # None THEN a ELSE b

\* the first case(...): a NULL spatial_reference matches nothing
ShorthandCase(doc) ==
    IF doc.spatial_reference # None /\ MatchesShorthand(doc.spatial_reference[1])
    THEN ShorthandLookup(doc.spatial_reference[1])
    ELSE None

\* the second case(...)
LegacyCase(doc) ==
    IF doc.datum = Some("GDA94") THEN LegacyLookup(doc.zone) ELSE None

\* get_dataset_srid_alchemy_expression(md), on the document section doc;
\* None section: the product is not spatial
DatasetSrid(doc) ==
    IF doc = None THEN None
    ELSE Coalesce(ShorthandCase(doc), LegacyCase(doc))

SpatialReferences ==
    {None,
     Some(<<"E", "P", "S", "G", ":", "4", "3", "2", "6">>),
     Some(<<"e", "p", "s", "g", ":", "2", "8", "3", "5", "5">>),
     Some(<<"E", "P", "S", "G", ":", "9", "9">>),
     Some(<<"c", "u", "s", "t", "o", "m", ":", "7">>),
     Some(<<"G", "D", "A", "9", "4">>),
     Some(<<"E", "P", "S", "G", ":">>),
     Some(<<"E", "P", "S", "G", ":", "4", "3", "2", "6", ":", "1">>),
     Some(<<"E", "P", "S", "G", " ", ":", "4", "3", "2", "6">>)}

Datums == {None, Some("GDA94"), Some("WGS84")}
Zones == {None, Some(0 - 55), Some(55), Some(56), Some(5), Some(57)}

GridSpatialSections ==
    {None} \cup
    [spatial_reference : SpatialReferences, datum : Datums, zone : Zones]

Unevaluated == [evaluated |-> FALSE, value |-> None]
Evaluated(v) == [evaluated |-> TRUE, value |-> v]

\* the SRID expression is evaluated for the dataset
ResolveSrid ==
    /\ ~srid.evaluated
    /\ srid' = Evaluated(DatasetSrid(grid_spatial))
    /\ UNCHANGED grid_spatial
    /\ UNCHANGED notSrid

SridNext == ResolveSrid

-----------------------------------------------------------------------------
(* TimePeriodOverview.footprint_wrs84.  Coordinates are <<lon, lat>> in     *)
(* tenths of a degree.  The footprints are in EPSG:4326 already, for which *)
(* the pyproj transform to epsg:4326 leaves every coordinate as it is.     *)

Degrees(d) == 10 * d

Polygon(exterior) == [type |-> "Polygon", exterior |-> exterior]
MultiPolygon(geoms) == [type |-> "MultiPolygon", geoms |-> geoms]

\* transform(partial(pyproj.transform, origin, dest), geometry), origin
\* being epsg:4326 like dest
TransformWrs84(geometry) == geometry

PartsOf(geometry) ==
    IF geometry.type = "MultiPolygon" THEN geometry.geoms ELSE <<geometry>>

Lons(polygon) == {polygon.exterior[i][1] : i \in DOMAIN polygon.exterior}

\* geometry.intersects(NEAR_ANTIMERIDIAN), the box of longitudes 179..181
\* and all latitudes: a part reaches it when its longitudes do
Intersects179To181(geometry) ==
    \E i \in DOMAIN PartsOf(geometry) :
        LET lons == Lons(PartsOf(geometry)[i])
        IN  SetMax(lons) >= Degrees(179) /\ SetMin(lons) <= Degrees(181)

\* _test_wrap_coordinates on a Polygon
PolygonWraps(polygon) ==
    /\ \E c \in Lons(polygon) : c < Degrees(0 - 170)
    /\ \E c \in Lons(polygon) : ~(c < Degrees(0 - 170)) /\ c > Degrees(170)

\* _test_wrap_coordinates
TestWrapCoordinates(features) ==
    IF features.type = "MultiPolygon"
    THEN \E i \in DOMAIN features.geoms : PolygonWraps(features.geoms[i])
    ELSE PolygonWraps(features)

\* _unwrap_coordinates on a coordinate
UnwrapCoordinate(c) ==
    IF c[1] < Degrees(0 - 170) THEN <<c[1] + Degrees(360), c[2]>> ELSE c

\* _unwrap_coordinates on a Polygon: a new Polygon of the exterior ring
UnwrapPolygon(polygon) ==
    Polygon([i \in DOMAIN polygon.exterior |-> UnwrapCoordinate(polygon.exterior[i])])

\* _unwrap_coordinates
UnwrapCoordinates(features) ==
    IF features.type = "MultiPolygon"
    THEN MultiPolygon([i \in DOMAIN features.geoms |-> UnwrapPolygon(features.geoms[i])])
    ELSE UnwrapPolygon(features)

\* lines 181-191: new_geometry after the antimeridian test
NewGeometry(geometry) ==
    LET transformed == TransformWrs84(geometry)
    IN  IF Intersects179To181(transformed) /\ TestWrapCoordinates(transformed)
        THEN UnwrapCoordinates(transformed)
        ELSE transformed

\* new_geometry.buffer(0)
Buffer0(geometry) == [buffer |-> 0, of |-> geometry]

RingLons == {0 - 1795, 0 - 1750, 0 - 1650, 0, 1650, 1750, 1795}

\* a ring through the given longitudes, closed on its first vertex
Ring(lons) ==
    [i \in 1..(Len(lons) + 1) |->
        IF i = Len(lons) + 1 THEN <<lons[1], 0>> ELSE <<lons[i], (i % 2) * 100>>]

Polygons == {Polygon(Ring(lons)) : lons \in [1..MaxRing -> RingLons]}

\* the parts of the multi-part footprints: one narrow across the
\* antimeridian, one wide across it, one west of it, one east of it
SampleParts ==
    {Polygon(Ring(<<1795, 0 - 1795, 1795>>)),
     Polygon(Ring(<<1795, 0 - 1795, 0 - 1650>>)),
     Polygon(Ring(<<0 - 1750, 0 - 1795, 0 - 1750>>)),
     Polygon(Ring(<<1750, 1795, 1650>>))}

MultiPolygons == {MultiPolygon(<<a, b>>) : a \in SampleParts, b \in SampleParts}

\* the property footprint_wrs84 is read
FootprintWrs84 ==
    /\ ~wrs84.evaluated
    /\ IF self.footprint_geometry = None \/ self.footprint_crs = None
       THEN /\ wrs84' = Evaluated(None)
            /\ UNCHANGED new_geometry
       ELSE /\ new_geometry' = NewGeometry(self.footprint_geometry)
            /\ wrs84' = Evaluated(Buffer0(NewGeometry(self.footprint_geometry)))
    /\ UNCHANGED self
    /\ UNCHANGED notWrap

WrapNext == FootprintWrs84

-----------------------------------------------------------------------------
(* The specifications: one per part of the code, the other parts at rest *)

\* every part at rest: no list handed to add_periods yet, an empty catalog and
\* table, nothing evaluated
InitRest ==
    /\ periods = <<>> /\ footprint_tolerance = None /\ pc = "args"
    /\ unionCalls = <<>> /\ result = None /\ error = None /\ depth = 0
    /\ catalog = [id \in DatasetIds |-> IF id = 0 THEN Dataset(2, "v1") ELSE None]
    /\ dataset_spatial = EmptyBag
    /\ calls = [c \in CallIds |-> IdleCall]
    /\ grid_spatial = None /\ srid = Unevaluated
    /\ self = [footprint_geometry |-> None, footprint_crs |-> None]
    /\ new_geometry = None /\ wrs84 = Unevaluated

\* the same, with a dataset document to resolve
InitSrid ==
    /\ periods = <<>> /\ footprint_tolerance = None /\ pc = "args"
    /\ unionCalls = <<>> /\ result = None /\ error = None /\ depth = 0
    /\ catalog = [id \in DatasetIds |-> IF id = 0 THEN Dataset(2, "v1") ELSE None]
    /\ dataset_spatial = EmptyBag
    /\ calls = [c \in CallIds |-> IdleCall]
    /\ grid_spatial \in GridSpatialSections /\ srid = Unevaluated
    /\ self = [footprint_geometry |-> None, footprint_crs |-> None]
    /\ new_geometry = None /\ wrs84 = Unevaluated

\* the same, with an overview to display
InitWrap ==
    /\ periods = <<>> /\ footprint_tolerance = None /\ pc = "args"
    /\ unionCalls = <<>> /\ result = None /\ error = None /\ depth = 0
    /\ catalog = [id \in DatasetIds |-> IF id = 0 THEN Dataset(2, "v1") ELSE None]
    /\ dataset_spatial = EmptyBag
    /\ calls = [c \in CallIds |-> IdleCall]
    /\ grid_spatial = None /\ srid = Unevaluated
    /\ self \in [footprint_geometry : {None} \cup Polygons \cup MultiPolygons,
                 footprint_crs : {None, Some("EPSG:4326")}]
    /\ new_geometry = None /\ wrs84 = Unevaluated

\* single calls of add_periods on the overviews of Leaves
SpecMerge == InitRest /\ [][MergeNext]_vars

\* calls of add_periods on the overviews of TimelineLeaves
SpecTimeline == InitRest /\ [][TimelineNext]_vars

\* calls of add_periods on day-period leaves and on its own results
SpecBottomUp == InitRest /\ [][BottomUpNext]_vars

\* overlapping calls of refresh_product while the catalog changes
SpecRefresh == InitRest /\ [][StoreNext]_vars

\* the SRID expression on every document section
SpecSrid == InitSrid /\ [][SridNext]_vars

\* footprint_wrs84 on every footprint
SpecWrap == InitWrap /\ [][WrapNext]_vars

-----------------------------------------------------------------------------
(* The contract of add_periods *)

\* the overviews of the list that are there (None entries left out)
GivenOverviews == SelectSeq(periods, LAMBDA p : p # None)

\* C1: whenever add_periods returns, the result's dataset_count is the sum
\* of dataset_count over the overviews of the list; None entries and
\* overviews of dataset_count 0 are filtered out and add nothing: not to
\* the count, and not to the crses of the result either.
C1_DatasetCountIsSum ==
    pc = "returned" =>
        /\ result.dataset_count =
               SumSeq([i \in DOMAIN GivenOverviews |-> GivenOverviews[i].dataset_count])
        /\ result.crses =
               UNION {GivenOverviews[i].crses :
                         i \in {j \in DOMAIN GivenOverviews :
                                   GivenOverviews[j].dataset_count > 0}}

\* a returned merge of a full list holding a None or an overview of no
\* datasets next to an overview of two datasets
C1_Witness ==
    /\ pc = "returned"
    /\ Len(periods) = MaxPeriods
    /\ \E i \in DOMAIN periods : periods[i] = None \/ periods[i].dataset_count = 0
    /\ \E i \in DOMAIN periods : periods[i] # None /\ periods[i].dataset_count = 2
    /\ result.dataset_count = 2

\* the distinct non-null footprint_crs values of the filtered overviews
NonNullCrses ==
    {Filtered(periods)[i].footprint_crs[1] :
        i \in {j \in DOMAIN Filtered(periods) : Filtered(periods)[j].footprint_crs # None}}

\* C2: once add_periods is past its CRS check, the outcome follows the
\* distinct non-null footprint_crs values of the filtered overviews (a null
\* footprint_crs is not counted): none of them, the result's footprint_crs is
\* absent; exactly one, the result adopts it and the CRS error is not
\* raised; more than one, the merge fails with the CRS error and returns no
\* overview.
C2_CrsFromNonNullValues ==
    pc # "args" =>
        /\ Cardinality(NonNullCrses) > 1 =>
               pc = "raised" /\ error = Some("NotImplementedError") /\ result = None
        /\ Cardinality(NonNullCrses) <= 1 => error # Some("NotImplementedError")
        /\ (pc = "returned" /\ NonNullCrses = {}) => result.footprint_crs = None
        /\ (pc = "returned" /\ Cardinality(NonNullCrses) = 1) =>
               result.footprint_crs = Some(CHOOSE c \in NonNullCrses : TRUE)

\* the fields of the single overview that C3 compares, as the result has them
SameFields(given, merged) ==
    /\ merged.dataset_count = given.dataset_count
    /\ merged.timeline_dataset_counts = given.timeline_dataset_counts
    /\ merged.region_dataset_counts = given.region_dataset_counts
    /\ merged.timeline_period = given.timeline_period
    /\ merged.time_range = given.time_range
    /\ merged.footprint_crs = given.footprint_crs
    /\ merged.footprint_count = given.footprint_count
    /\ (merged.footprint_geometry = None) = (given.footprint_geometry = None)
    /\ merged.newest_dataset_creation_time = given.newest_dataset_creation_time
    /\ merged.crses = given.crses
    /\ merged.size_bytes = given.size_bytes

\* C3 as claimed: add_periods of a list holding a single overview returns an
\* overview equal to it in every field but summary_gen_time and the
\* simplification of the geometry.
C3_SingletonIdentity ==
    (pc = "returned" /\ Len(periods) = 1 /\ periods[1] # None) =>
        SameFields(periods[1], result)

\* the single overviews that add_periods hands back unchanged: at least one
\* dataset, at most 366 timeline keys, a size_bytes that is not None, and a
\* footprint that is either counted with a valid, non-empty geometry or not
\* there at all (count 0, no geometry)
KeptAsIs(p) ==
    /\ p.dataset_count > 0
    /\ Cardinality(DOMAIN p.timeline_dataset_counts) <= MaxTimelineKeys
    /\ p.size_bytes # None
    /\ \/ /\ p.footprint_count > 0
          /\ p.footprint_geometry # None
          /\ p.footprint_geometry.is_valid
          /\ ~IsEmpty(p.footprint_geometry)
       \/ /\ p.footprint_count = 0
          /\ p.footprint_geometry = None

\* C3, amended: when add_periods returns for a list holding a single
\* overview that has at least one dataset, at most 366 timeline keys, a
\* size_bytes, and a footprint that is either valid and counted or wholly
\* absent, the result equals that overview in every field but
\* summary_gen_time and the simplification of the geometry.
C3_SingletonIdentityWhenKept ==
    (pc = "returned" /\ Len(periods) = 1 /\ periods[1] # None /\ KeptAsIs(periods[1])) =>
        SameFields(periods[1], result)

\* a single month-period overview with a valid footprint, merged after the
\* first union failed and the retry on the buffered footprint returned
C3_Witness ==
    /\ pc = "returned"
    /\ Len(periods) = 1
    /\ periods[1] # None
    /\ KeptAsIs(periods[1])
    /\ periods[1].timeline_period = "month"
    /\ periods[1].footprint_count > 0
    /\ Len(unionCalls) = 2
    /\ result.footprint_geometry # None

-----------------------------------------------------------------------------
(* The timeline of the merge *)

\* the per-key sum of the timelines of the filtered overviews, before
\* _group_counter_if_needed
MergedTimeline == TimelineCounter(Filtered(periods))

\* every filtered overview has a day timeline, and together they have more
\* than 366 distinct day keys
ManyDayKeys ==
    /\ \A i \in DOMAIN Filtered(periods) : Filtered(periods)[i].timeline_period = "day"
    /\ Cardinality(DOMAIN MergedTimeline) > MaxTimelineKeys

\* the first days of the months that have a day key of positive count
MonthsOf(c) == {FirstOfMonth(k) : k \in {d \in DOMAIN c : c[d] >= 1}}

\* C4 as claimed: when the merged timeline of day-period overviews has more
\* than 366 distinct day keys, the result's timeline has at most 366 keys
\* and its timeline_period is month.
C4_AtMost366Keys ==
    (pc = "returned" /\ ManyDayKeys) =>
        /\ Cardinality(DOMAIN result.timeline_dataset_counts) <= MaxTimelineKeys
        /\ result.timeline_period = "month"

\* C4, amended: when the merged timeline of day-period overviews has more
\* than 366 distinct day keys, the result's timeline_period is month and its
\* timeline has exactly one key per month that holds a counted day, with
\* the sum of that month's day counts, so that the total is unchanged; it
\* has at most 366 keys only when those days fall in at most 366 months.
C4_CoarsenedOnceToMonths ==
    (pc = "returned" /\ ManyDayKeys) =>
        LET merged == MergedTimeline
            coarse == result.timeline_dataset_counts
        IN  /\ result.timeline_period = "month"
            /\ DOMAIN coarse = MonthsOf(merged)
            /\ \A n \in DOMAIN coarse :
                   coarse[n] = Cardinality(Elements(merged, DatesOfMonth(n) \cap DOMAIN merged))
            /\ CounterTotal(coarse) = CounterTotal(merged)

\* two overviews of 196 days each in 7 months each, merged: 392 day keys
\* come back as 14 month keys
C4_Witness ==
    /\ pc = "returned"
    /\ ManyDayKeys
    /\ Len(Filtered(periods)) = 2
    /\ Cardinality(DOMAIN result.timeline_dataset_counts) = 14
    /\ result.timeline_period = "month"

-----------------------------------------------------------------------------
(* The footprint of the merge *)

\* the overviews whose footprint counts: footprint_count above 0 and a
\* geometry that is there, valid and not empty
ValidInputs ==
    SelectSeq(GivenOverviews, LAMBDA p :
        /\ p.dataset_count > 0
        /\ p.footprint_count > 0
        /\ p.footprint_geometry # None
        /\ p.footprint_geometry.is_valid
        /\ p.footprint_geometry.pts # {})

\* g is the geometry h grown by the buffer distance: it covers h and
\* reaches exactly that far beyond it
GrownBy(h, g) ==
    /\ h.pts \subseteq g.pts
    /\ g.pts # h.pts
    /\ \A q \in g.pts : \E p \in h.pts : q - p \in (0 - BufferDistance)..BufferDistance
    /\ \A p \in h.pts : p - BufferDistance \in g.pts /\ p + BufferDistance \in g.pts

\* C7: unary_union is called at most twice; the second call is made only
\* after the first one failed, on the same valid geometries each grown by
\* the positive buffer; when the retry returns, the result's footprint is
\* the union of the grown geometries, present and not empty; when the retry
\* fails too, the ValueError leaves add_periods and no overview is returned.
\* After a union failure add_periods never returns an overview without
\* footprint.
C7_RetryOnceOnBufferedFootprints ==
    /\ Len(unionCalls) <= 2
    /\ BufferDistance > 0
    /\ pc = "retry" <=> (Len(unionCalls) = 1 /\ pc \notin {"returned", "raised"})
    /\ Len(unionCalls) = 2 =>
           /\ Len(unionCalls[2]) = Len(unionCalls[1])
           /\ Len(unionCalls[1]) = Len(ValidInputs)
           /\ \A i \in DOMAIN unionCalls[1] :
                  /\ unionCalls[1][i] = ValidInputs[i].footprint_geometry
                  /\ GrownBy(unionCalls[1][i], unionCalls[2][i])
           /\ pc \in {"returned", "raised"}
    /\ (pc = "returned" /\ Len(unionCalls) = 2) =>
           /\ result.footprint_geometry # None
           /\ result.footprint_geometry.pts # {}
           /\ result.footprint_geometry.pts = UNION {unionCalls[2][i].pts : i \in DOMAIN unionCalls[2]}
    /\ (pc = "raised" /\ Len(unionCalls) = 2) =>
           /\ error = Some("ValueError")
           /\ result = None
    /\ error = Some("ValueError") => Len(unionCalls) = 2

\* a merge of two overviews with valid footprints that returned after the
\* first union failed
C7_Witness ==
    /\ pc = "returned"
    /\ Len(unionCalls) = 2
    /\ Len(unionCalls[2]) = 2
    /\ result.footprint_geometry # None

\* C8: when add_periods returns, the result's footprint_count is the sum of
\* footprint_count over the valid inputs only (footprint_count above 0 and
\* a geometry that is there, topologically valid and not empty); the other
\* inputs are in no union and do not make the merge fail: only valid
\* geometries are handed to unary_union, and a merge with no valid input
\* returns without a union; the inputs having footprint_count at most
\* dataset_count, so has the result.
C8_FootprintCountOfValidOnly ==
    /\ pc = "returned" =>
           /\ result.footprint_count =
                  SumSeq([i \in DOMAIN ValidInputs |-> ValidInputs[i].footprint_count])
           /\ (\A i \in DOMAIN GivenOverviews :
                   GivenOverviews[i].footprint_count <= GivenOverviews[i].dataset_count)
               => result.footprint_count <= result.dataset_count
           /\ ValidInputs = <<>> => (unionCalls = <<>> /\ result.footprint_geometry = None)
    /\ \A c \in DOMAIN unionCalls :
           /\ Len(unionCalls[c]) = Len(ValidInputs)
           /\ \A i \in DOMAIN unionCalls[c] :
                  unionCalls[c][i].is_valid /\ unionCalls[c][i].pts # {}
    /\ (pc = "raised" /\ ValidInputs = <<>>) => error = Some("NotImplementedError")

\* a returned merge of an overview with an invalid geometry and one with a
\* valid geometry
C8_Witness ==
    /\ pc = "returned"
    /\ Len(GivenOverviews) = 2
    /\ Len(ValidInputs) = 1
    /\ \E i \in DOMAIN GivenOverviews :
           /\ GivenOverviews[i].footprint_count > 0
           /\ GivenOverviews[i].footprint_geometry # None
           /\ ~GivenOverviews[i].footprint_geometry.is_valid
    /\ result.footprint_count = 1
    /\ result.dataset_count = 2

-----------------------------------------------------------------------------
(* The contract of refresh_product *)

\* C5: a call of refresh_product that starts when every dataset it selects
\* has its row in dataset_spatial already (a repeated call, nothing new in
\* the catalog) inserts no row, returns 0 and raises no error; and no step
\* of any call changes or removes a row that is in the table: a row is only
\* ever added, for an id that has none.
C5_RefreshIsIdempotent ==
    /\ [](\A c \in CallIds :
             /\ calls[c].pc # "raised"
             /\ calls[c].all_stored =>
                    /\ calls[c].inserted = {}
                    /\ calls[c].pc = "returned" => calls[c].rowcount = Some(0))
    /\ [][/\ \A id \in IdsOf(dataset_spatial) :
                 RowsOf(dataset_spatial', id) = RowsOf(dataset_spatial, id)
          /\ \A r \in BagToSet(dataset_spatial) :
                 CopiesIn(r, dataset_spatial') = CopiesIn(r, dataset_spatial)
          /\ \A r \in BagToSet(dataset_spatial') :
                 CopiesIn(r, dataset_spatial) = 0 => r.id \notin IdsOf(dataset_spatial)]_vars

\* a repeated call has returned 0: every dataset it selected had been stored
\* by the call before it, one of them updated in the catalog since
C5_Witness ==
    \E c \in CallIds :
        /\ calls[c].pc = "returned"
        /\ calls[c].all_stored
        /\ calls[c].selected # {}
        /\ calls[c].rowcount = Some(0)
        /\ \E r \in calls[c].selected : r \notin BagToSet(dataset_spatial)
        /\ \A d \in CallIds \ {c} : calls[d].pc = "returned" /\ calls[d].rowcount # Some(0)

\* C6: whatever the interleaving of overlapping refresh_product calls, no
\* call fails with a duplicate-key error; the table never holds two rows of
\* one id, and once a call has returned it holds exactly one row for every
\* non-archived dataset of the product that the call selected; once no call
\* is running, the counts returned add up to the number of rows in the
\* table, all of which these calls added.
C6_ConcurrentRefreshes ==
    /\ \A c \in CallIds : calls[c].pc # "raised"
    /\ \A r \in BagToSet(dataset_spatial) : CopiesIn(r, dataset_spatial) = 1
    /\ \A id \in DatasetIds : Cardinality(RowsOf(dataset_spatial, id)) <= 1
    /\ \A c \in CallIds :
           calls[c].pc = "returned" =>
               \A r \in calls[c].selected : Cardinality(RowsOf(dataset_spatial, r.id)) = 1
    /\ (\A c \in CallIds : calls[c].pc \in {"idle", "returned"}) =>
           BagCardinality(dataset_spatial) =
               SumSeq([i \in 1..2 |->
                          LET c == IF i = 1 THEN "first" ELSE "second"
                          IN  IF calls[c].pc = "returned" THEN calls[c].rowcount[1] ELSE 0])

\* two calls for the same product overlapped, each selected the same two
\* datasets, and each has returned 1
C6_Witness ==
    /\ \A c \in CallIds :
           /\ calls[c].pc = "returned"
           /\ calls[c].product_ref = Some(1)
           /\ Cardinality(calls[c].selected) = 2
           /\ calls[c].rowcount = Some(1)
    /\ calls["first"].selected = calls["second"].selected

-----------------------------------------------------------------------------
(* The contract of the SRID expression *)

\* the SRID of the legacy path: EPSG code 283 followed by the absolute
\* value of the zone, for the datum GDA94 only, looked up in the table
LegacySrid(doc) ==
    IF doc.datum = Some("GDA94") /\ doc.zone # None
    THEN Scalar({r \in SPATIAL_REF_SYS :
                    r.auth_name = EPSG /\ r.auth_srid = Concat283(Abs(doc.zone[1]))})
    ELSE None

\* C9: the SRID is resolved in strict order: a spatial_reference that
\* matches authority:code gives the result of the table lookup on the
\* authority name, compared case-insensitively, and the code, whatever that
\* lookup finds; the legacy datum and zone path is taken only for a
\* spatial_reference that does not match; anything else is unresolved.
C9_StrictResolutionOrder ==
    (srid.evaluated /\ grid_spatial # None) =>
        IF grid_spatial.spatial_reference # None
           /\ MatchesShorthand(grid_spatial.spatial_reference[1])
        THEN srid.value = ShorthandLookup(grid_spatial.spatial_reference[1])
        ELSE srid.value = LegacySrid(grid_spatial)

-----------------------------------------------------------------------------
(* The contract of footprint_wrs84 *)

\* the longitudes of two vertices are more than 180 degrees apart
Jump(a, b) == Abs(a[1] - b[1]) > Degrees(180)

\* no two consecutive vertices of the ring are more than 180 degrees apart
Continuous(polygon) ==
    \A i \in 1..(Len(polygon.exterior) - 1) :
        ~Jump(polygon.exterior[i], polygon.exterior[i + 1])

\* the part has a vertex west of -170 and a vertex east of +170
Wrapped(polygon) ==
    /\ \E c \in Lons(polygon) : c < Degrees(0 - 170)
    /\ \E c \in Lons(polygon) : c > Degrees(170)

\* C10: every part of the footprint that is detected as wrapped (the
\* geometry reaches the 179..181 band and the part has a vertex of longitude
\* below -170 and one above +170) is corrected to a ring whose longitudes lie
\* in one band: no two consecutive vertices of it differ by more than 180
\* degrees.
C10_CorrectedRingIsContinuous ==
    (wrs84.evaluated /\ wrs84.value # None) =>
        LET given == PartsOf(self.footprint_geometry)
            corrected == PartsOf(new_geometry)
        IN  \A i \in DOMAIN given :
                (Intersects179To181(self.footprint_geometry) /\ Wrapped(given[i]))
                    => Continuous(corrected[i])

-----------------------------------------------------------------------------
(* The invariant of the overviews that add_periods returns *)

\* C11: every overview that add_periods returns, for any list (the empty
\* list and lists of None included), has no footprint_geometry when its
\* footprint_count is 0; the merge of no overview at all has dataset_count
\* 0, no footprint_geometry and empty crses.
C11_NoFootprintWithoutCount ==
    pc = "returned" =>
        /\ result.footprint_count = 0 => result.footprint_geometry = None
        /\ Filtered(periods) = <<>> =>
               /\ result.dataset_count = 0
               /\ result.footprint_geometry = None
               /\ result.crses = {}

\* a returned merge whose inputs carry geometries, none of them counted or
\* valid: the result has footprint_count 0 and no geometry
C11_Witness ==
    /\ pc = "returned"
    /\ Filtered(periods) # <<>>
    /\ \E i \in DOMAIN Filtered(periods) :
           /\ Filtered(periods)[i].footprint_geometry # None
           /\ Filtered(periods)[i].footprint_count = 0
    /\ result.footprint_count = 0
    /\ result.footprint_geometry = None

-----------------------------------------------------------------------------
(* The histograms of the merge *)

\* the sum of the counts that the histograms of hs have for the key k
KeySum(hs, k) ==
    SumSeq([i \in DOMAIN hs |-> IF k \in DOMAIN hs[i] THEN hs[i][k] ELSE 0])

\* merged has the keys of the histograms of hs and no other, each with the
\* sum of its counts
PerKeySum(hs, merged) ==
    /\ DOMAIN merged = UNION {DOMAIN hs[i] : i \in DOMAIN hs}
    /\ \A k \in DOMAIN merged : merged[k] = KeySum(hs, k)

\* down-sampling is triggered: more than 366 keys in the sum of the
\* timelines, the period of the last filtered overview being day or month
DownSampled ==
    /\ Cardinality(UNION {DOMAIN Filtered(periods)[i].timeline_dataset_counts :
                             i \in DOMAIN Filtered(periods)}) > MaxTimelineKeys
    /\ Filtered(periods)[Len(Filtered(periods))].timeline_period \in {"day", "month"}

\* C12: when add_periods returns, region_dataset_counts of the result has
\* exactly the keys of the filtered inputs' region histograms, each with the
\* sum of that key's counts over the inputs that have it, and so has
\* timeline_dataset_counts when no down-sampling is triggered; and no step
\* of the call changes the list or the histograms of its overviews.
C12_PerKeySummation ==
    /\ [](pc = "returned" =>
            LET given == Filtered(periods)
            IN  /\ PerKeySum([i \in DOMAIN given |-> given[i].region_dataset_counts],
                             result.region_dataset_counts)
                /\ ~DownSampled =>
                       PerKeySum([i \in DOMAIN given |-> given[i].timeline_dataset_counts],
                                 result.timeline_dataset_counts))
    /\ [][pc # "args" => periods' = periods]_vars

\* a returned merge of two overviews that share a day and a region, one of
\* them having a day and a region of its own
C12_Witness ==
    /\ pc = "returned"
    /\ Len(Filtered(periods)) = 2
    /\ ~DownSampled
    /\ \E k \in DOMAIN result.region_dataset_counts :
           /\ \A i \in 1..2 : k \in DOMAIN Filtered(periods)[i].region_dataset_counts
           /\ result.region_dataset_counts[k] = 2
    /\ \E k \in DOMAIN result.region_dataset_counts :
           k \notin DOMAIN Filtered(periods)[1].region_dataset_counts
    /\ \E k \in DOMAIN result.timeline_dataset_counts :
           /\ \A i \in 1..2 : k \in DOMAIN Filtered(periods)[i].timeline_dataset_counts
           /\ result.timeline_dataset_counts[k] = 2
    /\ \E k \in DOMAIN result.timeline_dataset_counts :
           k \notin DOMAIN Filtered(periods)[1].timeline_dataset_counts

\* the period of the last filtered overview: the one the timeline is taken
\* to have before _group_counter_if_needed
GivenPeriod ==
    IF Filtered(periods) = <<>> THEN "day"
    ELSE Filtered(periods)[Len(Filtered(periods))].timeline_period

\* coarse has one key per month (year) of the counted keys of c, with the
\* sum of the counts of that month's (year's) keys
ResummedByMonth(c, coarse) ==
    /\ DOMAIN coarse = {<<k[1], k[2], 1>> : k \in {d \in DOMAIN c : c[d] >= 1}}
    /\ \A n \in DOMAIN coarse :
           coarse[n] = Cardinality(Elements(c, DatesOfMonth(n) \cap DOMAIN c))

ResummedByYear(c, coarse) ==
    /\ DOMAIN coarse = {<<k[1], 1, 1>> : k \in {d \in DOMAIN c : c[d] >= 1}}
    /\ \A n \in DOMAIN coarse :
           coarse[n] = Cardinality(Elements(c, DatesOfYear(n) \cap DOMAIN c))

\* C13: one call of add_periods coarsens its timeline at most once: with at
\* most 366 keys in the summed timeline, the keys, counts and period are
\* left as they are; with more, a day timeline is re-summed by month and
\* becomes a month timeline (never a year timeline), a month timeline is
\* re-summed by year and becomes a year timeline, and a year timeline is
\* left as it is; the total of the counts is the same before and after.
C13_AtMostOneCoarseningStep ==
    pc = "returned" =>
        LET merged == MergedTimeline
            coarse == result.timeline_dataset_counts
            many == Cardinality(DOMAIN merged) > MaxTimelineKeys
        IN  /\ (~many \/ GivenPeriod = "year") =>
                   coarse = merged /\ result.timeline_period = GivenPeriod
            /\ (many /\ GivenPeriod = "day") =>
                   ResummedByMonth(merged, coarse) /\ result.timeline_period = "month"
            /\ (many /\ GivenPeriod = "month") =>
                   ResummedByYear(merged, coarse) /\ result.timeline_period = "year"
            /\ CounterTotal(coarse) = CounterTotal(merged)

\* a returned merge of a day timeline of 400 days in 400 months: it comes
\* back as a month timeline of 400 keys, not coarsened a second time
C13_Witness ==
    /\ pc = "returned"
    /\ GivenPeriod = "day"
    /\ Cardinality(DOMAIN MergedTimeline) > MaxTimelineKeys
    /\ result.timeline_period = "month"
    /\ Cardinality(DOMAIN result.timeline_dataset_counts) > MaxTimelineKeys
    /\ CounterTotal(result.timeline_dataset_counts) = CounterTotal(MergedTimeline)

\* the longitude that C14 expects for a vertex of a part of the footprint:
\* 360 degrees more for a vertex below -170 of a part that is itself
\* wrapped, the geometry reaching the 179..181 band; its own otherwise
ExpectedLon(geometry, part, c) ==
    IF Intersects179To181(geometry) /\ Wrapped(part) /\ c[1] < Degrees(0 - 170)
    THEN c[1] + Degrees(360)
    ELSE c[1]

\* C14: footprint_wrs84 adds 360 degrees to exactly the vertices of
\* longitude below -170 of the parts that are themselves wrapped; the
\* vertices of the parts of a multi-part geometry that are not wrapped keep
\* their longitudes, and so does every vertex when no part is wrapped or the
\* geometry does not reach the 179..181 band.
C14_OnlyWrappedPartsAreShifted ==
    (wrs84.evaluated /\ wrs84.value # None) =>
        LET given == PartsOf(self.footprint_geometry)
            corrected == PartsOf(new_geometry)
        IN  /\ DOMAIN corrected = DOMAIN given
            /\ \A i \in DOMAIN given :
                   /\ DOMAIN corrected[i].exterior = DOMAIN given[i].exterior
                   /\ \A j \in DOMAIN given[i].exterior :
                          corrected[i].exterior[j][1] =
                              ExpectedLon(self.footprint_geometry, given[i], given[i].exterior[j])

-----------------------------------------------------------------------------
(* The timeline after merges of merges *)

\* every key of the timeline is a start of the period: any date for day,
\* the first day of a month for month, 1 January for year
KeysAligned(overview) ==
    \A k \in DOMAIN overview.timeline_dataset_counts :
        CASE overview.timeline_period = "day" -> TRUE
          [] overview.timeline_period = "month" -> k[3] = 1
          [] overview.timeline_period = "year" -> k[2] = 1 /\ k[3] = 1

Reverse(s) == [i \in DOMAIN s |-> s[Len(s) + 1 - i]]

\* C15: after any sequence of merges that starts from day-period leaves,
\* results of earlier merges being merged with other overviews in any
\* order, every key of the result's timeline is aligned to the result's
\* timeline_period, and the timeline_period is the one that the same list
\* gives in the opposite order.
C15_TimelineKeysAligned ==
    pc = "returned" =>
        /\ KeysAligned(result)
        /\ result.timeline_period =
               BuildOverview(Filtered(Reverse(periods)), None, None).timeline_period

====
